---- MODULE Spec2Model ----
(***************************************************************************)
(* Model of GhostContentApp (universal_mcp_ghost_content/app.py): the      *)
(* lazily loaded credential cache, the normalisation of query parameters,  *)
(* the GET exchange with its error mapping, and the 14 tool operations.    *)
(***************************************************************************)
EXTENDS Integers, Sequences, FiniteSets, TLC

(***************************************************************************)
(* Bounds of the model.                                                    *)
(***************************************************************************)
\* Calls of get_credentials over the life of the one client instance.
MaxFetches == 2
\* Optional parameters an operation call supplies (gives a value other than
\* None).
MaxSupplied == 2
\* Length of the `errors` array of a server error body.
MaxErrors == 2
\* Threads that call an operation on the one instance at the same time.
MaxThreads == 2

(***************************************************************************)
(* Python values.  A string is the sequence of its fragments (a fragment   *)
(* is a run of characters that the code never looks inside; "/" is always  *)
(* a fragment of its own, because rstrip('/') and lstrip('/') look at it). *)
(* The empty string is Str(<<>>).                                          *)
(***************************************************************************)
None == [t |-> "None"]
Str(s) == [t |-> "str", s |-> s]
PyInt(n) == [t |-> "int", n |-> n]
Bool(b) == [t |-> "bool", b |-> b]
List(l) == [t |-> "list", l |-> l]
Dict(d) == [t |-> "dict", d |-> d]

\* Python truthiness, as `not x` / `if x` use it.
Truthy(v) ==
    CASE v.t = "None" -> FALSE
      [] v.t = "str"  -> v.s # <<>>
      [] v.t = "int"  -> v.n # 0
      [] v.t = "bool" -> v.b
      [] v.t = "list" -> v.l # <<>>
      [] v.t = "dict" -> DOMAIN v.d # {}

\* dict.get(key, default)
Get(dict, key, default) == IF key \in DOMAIN dict.d THEN dict.d[key] ELSE default

\* s.rstrip(c): drop every trailing fragment c.
RECURSIVE Rstrip(_, _)
Rstrip(s, c) ==
    IF s # <<>> /\ s[Len(s)] = c THEN Rstrip(SubSeq(s, 1, Len(s) - 1), c) ELSE s

\* s.lstrip(c): drop every leading fragment c.
RECURSIVE Lstrip(_, _)
Lstrip(s, c) ==
    IF s # <<>> /\ s[1] = c THEN Lstrip(Tail(s), c) ELSE s

(***************************************************************************)
(* Exceptions: a type name and the message str(e) gives.                   *)
(***************************************************************************)
NoExc == [type |-> "none", msg |-> <<>>]
Exc(type, msg) == [type |-> type, msg |-> msg]

\* The classes an exception type is an instance of (json.JSONDecodeError is
\* a ValueError; httpx.HTTPStatusError is not an httpx.RequestError).
Bases(type) ==
    CASE type = "HTTPStatusError"    -> {"HTTPStatusError", "Exception"}
      [] type = "ValueError"         -> {"ValueError", "Exception"}
      [] type = "JSONDecodeError"    -> {"JSONDecodeError", "ValueError", "Exception"}
      [] type = "ConnectError"       -> {"ConnectError", "RequestError", "Exception"}
      [] type = "ReadTimeout"        -> {"ReadTimeout", "RequestError", "Exception"}
      [] type = "NotAuthorizedError" -> {"NotAuthorizedError", "Exception"}
      [] OTHER                       -> {type, "Exception"}

IsInstance(e, cls) == e.type # "none" /\ cls \in Bases(e.type)

(***************************************************************************)
(* The instance after __init__.                                            *)
(***************************************************************************)
DefaultApiVersion == Str(<<"v5.0">>)

InitSelf ==
    [api_key            |-> None,
     api_version        |-> DefaultApiVersion,
     base_url           |-> None,
     credentials_loaded |-> FALSE]

(***************************************************************************)
(* _load_credentials.  `source` is what integration.get_credentials() does *)
(* when called now: [raises |-> an exception type or "none", value |-> the *)
(* value returned].  The result holds the instance afterwards, the value   *)
(* returned (ret), the exception that escapes (raised), the number of      *)
(* calls of get_credentials made (fetched) and the way the method ended    *)
(* (how): "skipped" (already loaded), "unconfigured" (no integration),     *)
(* "raised" (get_credentials raised), "malformed" (an exception escaped),  *)
(* "missing" (a required credential is missing) or "complete".             *)
(***************************************************************************)
LoadOutcome(self, ret, raised, fetched, how) ==
    [self |-> self, ret |-> ret, raised |-> raised, fetched |-> fetched,
     how |-> how]

\* The branch taken on a raising get_credentials: log and return False.
OnFetchRaised(self) == LoadOutcome(self, FALSE, NoExc, 1, "raised")

\* Faulty variant: The missing-credentials branch without the loaded mark.
OnMissingCreds_notMarked(self) == LoadOutcome(self, FALSE, NoExc, 1, "missing")

\* The branch taken when a required credential is missing.
OnMissingCreds(self) ==
    LoadOutcome([self EXCEPT !.credentials_loaded = TRUE], FALSE, NoExc, 1,
                "missing")

\* Faulty variant: The success branch without the loaded mark.
OnCredsComplete_notMarked(self) == LoadOutcome(self, TRUE, NoExc, 1, "complete")

\* The branch taken when both required credentials are present.
OnCredsComplete(self) ==
    LoadOutcome([self EXCEPT !.credentials_loaded = TRUE], TRUE, NoExc, 1,
                "complete")

\* The early return of a loaded instance.
AlreadyLoaded(self) == self.credentials_loaded

BaseUrlOf(admin_domain) ==
    Str(<<"https://">> \o Rstrip(admin_domain.s, "/") \o <<"/ghost/api/content/">>)

load_credentials(self, integration, source) ==
    IF AlreadyLoaded(self) THEN LoadOutcome(self, TRUE, NoExc, 0, "skipped")
    ELSE IF ~integration THEN LoadOutcome(self, FALSE, NoExc, 0, "unconfigured")
    ELSE IF source.raises # "none" THEN OnFetchRaised(self)
    ELSE IF source.value.t # "dict"
      THEN \* credentials.get on a value that is no dict
           LoadOutcome(self, FALSE, Exc("AttributeError", <<"get">>), 1, "malformed")
    ELSE
      LET credentials  == source.value
          admin_domain == Get(credentials, "GHOST_ADMIN_DOMAIN", None)
          s1 == [self EXCEPT
                   !.api_key = Get(credentials, "GHOST_CONTENT_API_KEY", None),
                   !.api_version =
                       Get(credentials, "GHOST_API_VERSION", self.api_version)]
      IN  IF ~Truthy(admin_domain) THEN OnMissingCreds(s1)
          ELSE IF admin_domain.t # "str"
            THEN \* admin_domain.rstrip on a value that is no string
                 LoadOutcome(s1, FALSE, Exc("AttributeError", <<"rstrip">>), 1,
                             "malformed")
          ELSE
            LET s2 == [s1 EXCEPT !.base_url = BaseUrlOf(admin_domain)]
            IN  IF ~Truthy(s2.api_key) THEN OnMissingCreds(s2)
                ELSE OnCredsComplete(s2)

(***************************************************************************)
(* Text.  str(v), repr(v) and the f-strings of the code, on fragments.     *)
(***************************************************************************)
\* sep.join(parts), each part a sequence of fragments.
RECURSIVE Join(_, _)
Join(sep, parts) ==
    IF parts = <<>> THEN <<>>
    ELSE IF Len(parts) = 1 THEN parts[1]
    ELSE parts[1] \o sep \o Join(sep, Tail(parts))

\* Words separated by single blanks.
Words(ws) == Join(<<" ">>, [i \in 1..Len(ws) |-> <<ws[i]>>])

\* The keys of the dicts of the model, in the order a rendering lists them.
KeyOrder == <<"errors", "message", "type", "posts", "detail">>

\* repr(v) for q = "'", the JSON text of v for q = "\"".
RECURSIVE Render(_, _)
Render(v, q) ==
    CASE v.t = "None" -> IF q = "'" THEN <<"None">> ELSE <<"null">>
      [] v.t = "str"  -> <<q>> \o v.s \o <<q>>
      [] v.t = "int"  -> <<ToString(v.n)>>
      [] v.t = "bool" -> IF q = "'" THEN (IF v.b THEN <<"True">> ELSE <<"False">>)
                                    ELSE (IF v.b THEN <<"true">> ELSE <<"false">>)
      [] v.t = "list" ->
            <<"[">> \o Join(<<",", " ">>, [i \in 1..Len(v.l) |-> Render(v.l[i], q)])
                    \o <<"]">>
      [] v.t = "dict" ->
            LET keys == SelectSeq(KeyOrder, LAMBDA k : k \in DOMAIN v.d)
            IN  <<"{">> \o Join(<<",", " ">>,
                                [i \in 1..Len(keys) |->
                                    <<q, keys[i], q, ":", " ">> \o Render(v.d[keys[i]], q)])
                        \o <<"}">>

Repr(v) == Render(v, "'")
JsonText(v) == Render(v, "\"")

\* str(v)
PyStr(v) ==
    CASE v.t = "str" -> v.s
      [] OTHER       -> Repr(v)

\* The lower-case form of a fragment.
LowerFrag(f) ==
    CASE f = "True"   -> "true"
      [] f = "False"  -> "false"
      [] f = "DOMAIN" -> "domain"
      [] f = "ADMIN"  -> "admin"
      [] f = "GHOST"  -> "ghost"
      [] f = "Ghost"  -> "ghost"
      [] f = "API"    -> "api"
      [] f = "URL"    -> "url"
      [] OTHER        -> f

\* s.lower()
Lower(s) == [i \in 1..Len(s) |-> LowerFrag(s[i])]

(***************************************************************************)
(* The strings the operations return.                                      *)
(***************************************************************************)
LoadFailedMsg ==
    Words(<<"Error:", "Failed", "to", "load", "Ghost", "Content", "API",
            "credentials.", "Check", "integration", "configuration", "and",
            "logs.">>)

BaseUrlMsg ==
    Words(<<"Error:", "GhostContentApp", "base", "URL", "is", "not",
            "configured.", "Check">>)
      \o <<" ", "GHOST", "_", "ADMIN", "_", "DOMAIN", " ", "credential.">>

KeyMissingMsg ==
    Words(<<"Ghost", "Content", "API", "key", "is", "missing", "or", "could",
            "not", "be", "loaded.">>)

ConfigurationErrorMsg(ve) == <<"Configuration", " ", "error:", " ">> \o ve.msg

NetworkErrorMsg(endpoint, re) ==
    Words(<<"Network", "or", "request", "error", "fetching">>) \o <<" ">>
      \o endpoint \o <<":", " ", re.type, " ", "-", " ">> \o re.msg

UnexpectedErrorMsg(endpoint, e) ==
    Words(<<"Unexpected", "error", "fetching">>) \o <<" ">>
      \o endpoint \o <<":", " ", e.type, " ", "-", " ">> \o e.msg

(***************************************************************************)
(* _get_headers.  The base class may add an Authorization header, which    *)
(* is removed; Accept-Version is the cached version.                       *)
(***************************************************************************)
BaseHeaders == [h \in {"Authorization"} |-> Str(<<"Bearer", " ", "token">>)]

AcceptVersionOf(self) == self.api_version

get_headers(self) ==
    [h \in (DOMAIN BaseHeaders \ {"Authorization"}) \cup {"Accept-Version"} |->
        IF h = "Accept-Version" THEN AcceptVersionOf(self) ELSE BaseHeaders[h]]

(***************************************************************************)
(* _prepare_params.  custom_params is None or a Dict of the operation's    *)
(* parameters.  Gives the exception raised, or the query mapping.          *)
(***************************************************************************)
NoParams == [k \in {} |-> None]

\* Faulty variant: No guard on the cached key.
KeyUsable_unchecked(self) == TRUE

\* The guard on the cached key.
KeyUsable(self) == Truthy(self.api_key)

\* Faulty variant: The loop skips every falsy value, not only None.
SuppliedKeys_truthy(custom_params) ==
    IF Truthy(custom_params)
      THEN {k \in DOMAIN custom_params.d : Truthy(custom_params.d[k])}
      ELSE {}

\* The keys of custom_params that the loop copies.
SuppliedKeys(custom_params) ==
    IF Truthy(custom_params)
      THEN {k \in DOMAIN custom_params.d : custom_params.d[k] # None}
      ELSE {}

\* Faulty variant: Every value is stored as str(v), a boolean too.
ParamValue_plain(v) == Str(PyStr(v))

\* The value the loop stores for a value that is not None.
ParamValue(v) ==
    CASE v.t = "bool" -> Str(Lower(PyStr(v)))
      [] v.t = "list" -> Str(Join(<<",">>, [i \in 1..Len(v.l) |-> PyStr(v.l[i])]))
      [] OTHER        -> Str(PyStr(v))

\* final_params: the key, then what the loop copies.
FinalParams(self, custom_params) ==
    LET supplied == SuppliedKeys(custom_params)
    IN  [k \in {"key"} \cup supplied |->
            IF k \in supplied THEN ParamValue(custom_params.d[k])
                              ELSE self.api_key]

prepare_params(self, custom_params) ==
    IF ~KeyUsable(self)
      THEN [raised |-> Exc("ValueError", KeyMissingMsg), params |-> NoParams]
      ELSE [raised |-> NoExc, params |-> FinalParams(self, custom_params)]

(***************************************************************************)
(* The HTTP exchange.  `http` is what the server and the network do with   *)
(* the GET: [raises |-> the type of the exception client.get raises, or    *)
(* "none", status |-> the status code, body |-> the response body].  A     *)
(* body is [json |-> whether it parses as JSON, value |-> the parsed       *)
(* value, text |-> response.text].                                         *)
(***************************************************************************)
JsonBody(v) == [json |-> TRUE, value |-> v, text |-> JsonText(v)]
TextBody(text) == [json |-> FALSE, value |-> None, text |-> text]

\* response.raise_for_status() raises on these.
IsErrorStatus(status) == status >= 400 /\ status <= 599

\* Faulty variant: The element's message without its type.
ErrMsg_noType(err) == PyStr(Get(err, "message", Str(<<"Unknown Ghost error">>)))

\* "<message> (type: <type>)" for one element of the errors array.
ErrMsg(err) ==
    PyStr(Get(err, "message", Str(<<"Unknown Ghost error">>)))
      \o <<" ", "(type:", " ">> \o PyStr(Get(err, "type", Str(<<"N/A">>))) \o <<")">>

\* The part of the message built inside the inner try, or "raise" when an
\* exception is raised there (no JSON, a body that is no dict, an errors
\* value that is no list of dicts).
ErrorDetailsPart(body) ==
    IF ~body.json THEN <<"raise">>
    ELSE IF body.value.t # "dict" THEN <<"raise">>
    ELSE LET ghost_errors == Get(body.value, "errors", List(<<>>))
         IN  IF Truthy(ghost_errors)
               THEN IF ghost_errors.t # "list"
                       \/ \E i \in 1..Len(ghost_errors.l) : ghost_errors.l[i].t # "dict"
                      THEN <<"raise">>
                      ELSE <<" ", "-", " ", "Ghost API Errors:", " ">>
                             \o Join(<<";", " ">>,
                                     [i \in 1..Len(ghost_errors.l) |->
                                         ErrMsg(ghost_errors.l[i])])
               ELSE <<" ", "-", " ">> \o Repr(body.value)

\* The string returned by the handler of httpx.HTTPStatusError.
StatusErrorMsg(endpoint, http) ==
    LET head == Words(<<"Error", "fetching">>) \o <<" ">> \o endpoint
                  \o <<":", " ", ToString(http.status)>>
        part == ErrorDetailsPart(http.body)
    IN  IF part = <<"raise">> THEN head \o <<" ", "-", " ">> \o http.body.text
        ELSE head \o part

(***************************************************************************)
(* What an operation gives its caller: a parsed JSON body, a string, or an *)
(* exception that escapes.                                                 *)
(***************************************************************************)
NoResult == [kind |-> "none", text |-> <<>>, body |-> None, exc |-> "none"]
JsonResult(v) == [kind |-> "json", text |-> <<>>, body |-> v, exc |-> "none"]
StrResult(text) == [kind |-> "str", text |-> text, body |-> None, exc |-> "none"]
RaiseResult(e) == [kind |-> "raise", text |-> e.msg, body |-> None, exc |-> e.type]

\* The except clauses of _execute_get_request, in their order.
HandleException(e, endpoint, http) ==
    IF IsInstance(e, "HTTPStatusError") THEN StrResult(StatusErrorMsg(endpoint, http))
    ELSE IF IsInstance(e, "ValueError") THEN StrResult(ConfigurationErrorMsg(e))
    ELSE IF IsInstance(e, "RequestError") THEN StrResult(NetworkErrorMsg(endpoint, e))
    ELSE IF IsInstance(e, "Exception") THEN StrResult(UnexpectedErrorMsg(endpoint, e))
    ELSE RaiseResult(e)

\* The GET handed to the client (sent), or none.
NoRequest ==
    [sent |-> FALSE, endpoint |-> <<>>, params |-> NoParams,
     headers |-> [h \in {} |-> None]]
Request(endpoint, params, headers) ==
    [sent |-> TRUE, endpoint |-> endpoint, params |-> params, headers |-> headers]

\* A header value the client cannot encode makes client.get raise before
\* anything is sent.
HeadersEncodable(headers) == \A h \in DOMAIN headers : headers[h].t = "str"

\* Faulty variant: A request that failed on the network is sent once more.
Attempts_retried(http) == IF http.raises # "none" THEN 2 ELSE 1

\* The GETs client.get puts on the wire in one invocation: the code invokes
\* it once, outside any loop, and no handler invokes it again.
Attempts(http) == 1

\* What a call leaves: the instance, what the caller gets, the GET handed to
\* the client, the number of GETs put on the wire and how the load of this
\* call ended.
ExecOutcome(self, result, request, gets, load) ==
    [self |-> self, result |-> result, request |-> request, gets |-> gets,
     fetched |-> load.fetched, how |-> load.how]

\* The check that the base URL was set.
BaseUrlConfigured(self) == Truthy(self.base_url)

\* The lazy-loading trigger: the load is attempted only on an instance
\* that is not loaded.
NeedsLoad(self) == ~self.credentials_loaded

\* The try block after _prepare_params, and the handlers: prep is what
\* _prepare_params gave.
Exchange(self, endpoint, prep, http, load) ==
    LET headers == get_headers(self)
        request == Request(Lstrip(endpoint, "/"), prep.params, headers)
    IN  IF prep.raised.type # "none"
          THEN ExecOutcome(self, HandleException(prep.raised, endpoint, http),
                           NoRequest, 0, load)
        ELSE IF ~HeadersEncodable(headers)
          THEN ExecOutcome(self,
                           HandleException(Exc("TypeError", <<"Header value must be str or bytes">>),
                                           endpoint, http),
                           NoRequest, 0, load)
        ELSE IF http.raises # "none"
          THEN ExecOutcome(self,
                           HandleException(Exc(http.raises, <<"request failed">>),
                                           endpoint, http),
                           request, Attempts(http), load)
        ELSE IF IsErrorStatus(http.status)
          THEN ExecOutcome(self,
                           HandleException(Exc("HTTPStatusError", <<ToString(http.status)>>),
                                           endpoint, http),
                           request, Attempts(http), load)
        ELSE IF ~http.body.json
          THEN ExecOutcome(self,
                           HandleException(Exc("JSONDecodeError",
                                               Words(<<"Expecting", "value">>)),
                                           endpoint, http),
                           request, Attempts(http), load)
        ELSE ExecOutcome(self, JsonResult(http.body.value), request,
                         Attempts(http), load)

\* The body of the try block and its handlers.
TryRequest(self, endpoint, params, http, load) ==
    Exchange(self, endpoint, prepare_params(self, params), http, load)

execute_get_request(self, integration, source, endpoint, params, http) ==
    LET load == IF NeedsLoad(self)
                  THEN load_credentials(self, integration, source)
                  ELSE LoadOutcome(self, TRUE, NoExc, 0, "skipped")
        s == load.self
    IN  IF load.raised.type # "none"
          THEN ExecOutcome(s, RaiseResult(load.raised), NoRequest, 0, load)
        ELSE IF ~load.ret
          THEN ExecOutcome(s, StrResult(LoadFailedMsg), NoRequest, 0, load)
        ELSE IF ~BaseUrlConfigured(s)
          THEN ExecOutcome(s, StrResult(BaseUrlMsg), NoRequest, 0, load)
        ELSE TryRequest(s, endpoint, params, http, load)

(***************************************************************************)
(* State.                                                                  *)
(***************************************************************************)
VARIABLES
    integration,         \* whether the instance was built with an integration
    credentials,         \* what integration.get_credentials() does when called
    api_key,             \* self._api_key
    api_version,         \* self._api_version
    base_url,            \* self.base_url
    credentials_loaded,  \* self._credentials_loaded
    fetches,             \* calls of get_credentials made so far
    resolved,            \* how the latest fetch ended, and what it returned
    args,                \* the parameters the latest call passed down
    request,             \* the GET the latest call handed to the client
    answer,              \* what came back for that GET
    result,              \* what the latest call gave its caller
    gets,                \* GETs the latest call put on the wire
    threads              \* the calls in flight on concurrent threads

vars == <<integration, credentials, api_key, api_version, base_url,
          credentials_loaded, fetches, resolved, args, request, answer, result,
          gets, threads>>

\* What a call sets beside the instance.
exchange == <<fetches, resolved, args, request, answer, result, gets>>

cache == <<api_key, api_version, base_url, credentials_loaded>>

Self ==
    [api_key            |-> api_key,
     api_version        |-> api_version,
     base_url           |-> base_url,
     credentials_loaded |-> credentials_loaded]

(***************************************************************************)
(* The credential source.                                                  *)
(***************************************************************************)
Absent == [t |-> "absent"]

\* A complete bundle, and the values an entry may hold instead.
GoodDomain == Str(<<"blog.example.com", "/", "/">>)
GoodKey == Str(<<"K">>)
GoodVersion == Str(<<"v4.0">>)

OddDomains == {PyInt(123), Str(<<"blog.example.com">>)}
OddKeys == {Str(<<>>), Str(<<"K2">>)}
OddVersions == {None, Str(<<>>)}

Bundle(domain, key, version) ==
    LET entries == [GHOST_ADMIN_DOMAIN    |-> domain,
                    GHOST_CONTENT_API_KEY |-> key,
                    GHOST_API_VERSION     |-> version]
    IN  Dict([k \in {n \in DOMAIN entries : entries[n] # Absent} |-> entries[k]])

\* Every entry present or absent, and each odd value beside good ones.
Bundles ==
    {Bundle(d, k, v) : d \in {Absent, GoodDomain}, k \in {Absent, GoodKey},
                       v \in {Absent, GoodVersion}}
      \cup {Bundle(d, GoodKey, GoodVersion) : d \in OddDomains}
      \cup {Bundle(GoodDomain, k, GoodVersion) : k \in OddKeys}
      \cup {Bundle(GoodDomain, GoodKey, v) : v \in OddVersions}

Returns(v) == [raises |-> "none", value |-> v]
Raises(type) == [raises |-> type, value |-> None]

\* No fetch was made yet.
Unresolved == [how |-> "none", source |-> Returns(None)]
Resolved(how, source) == [how |-> how, source |-> source]

CredentialSources ==
    {Raises("NotAuthorizedError"), Raises("RuntimeError"), Returns(None)}
      \cup {Returns(b) : b \in Bundles}

ValidSource == Returns(Bundle(GoodDomain, GoodKey, GoodVersion))

(***************************************************************************)
(* The inputs of the operations and the answers of the server.             *)
(***************************************************************************)
OkBody == JsonBody(Dict([posts |-> List(<<>>)]))
HtmlBody == TextBody(<<"<html>", "Bad", " ", "Gateway", "</html>">>)

\* No GET was sent.
NoAnswer == [raises |-> "none", status |-> 0, body |-> TextBody(<<>>)]
Answer(status, body) == [raises |-> "none", status |-> status, body |-> body]
Failure(type) == [raises |-> type, status |-> 0, body |-> TextBody(<<>>)]

NotFound ==
    [message |-> Str(<<"Post", " ", "not", " ", "found">>),
     type    |-> Str(<<"NotFoundError">>)]

\* The elements an errors array may hold.
ErrorElements ==
    {Dict(NotFound), Dict([message |-> Str(<<"Internal">>)]), Str(<<"oops">>)}

ErrorArrays == UNION {[1..n -> ErrorElements] : n \in 0..MaxErrors}

ErrorBodies ==
    {JsonBody(Dict([errors |-> List(a)])) : a \in ErrorArrays}
      \cup {JsonBody(Dict([detail |-> Str(<<"gone">>)])),
            JsonBody(Dict([errors |-> Str(<<"bad">>)])),
            JsonBody(List(<<Str(<<"bad">>)>>)),
            HtmlBody}

\* Every answer of the model.
AllAnswers ==
    {Answer(200, OkBody), Answer(200, HtmlBody),
     Failure("ConnectError"), Failure("ReadTimeout"), Failure("RuntimeError")}
      \cup {Answer(404, b) : b \in ErrorBodies}
      \cup {Answer(500, HtmlBody)}

\* A few answers, one of each kind.
FewAnswers ==
    {Answer(200, OkBody), Answer(200, HtmlBody),
     Answer(404, JsonBody(Dict([errors |-> List(<<Dict(NotFound)>>)]))),
     Failure("ConnectError")}

\* The inputs an operation draws from: a set per parameter, and the answers.
Inputs(lists, filters, limits, pages, orders, answers) ==
    [include |-> lists, fields |-> lists, formats |-> lists,
     filter  |-> filters, limit |-> limits, page |-> pages, order |-> orders,
     id      |-> {Str(<<"x">>)}, slug |-> {Str(<<"welcome">>)},
     answers |-> answers]

\* No parameters, a few answers (and every credential source).
InLifecycle == Inputs({None}, {None}, {None}, {None}, {None}, FewAnswers)

\* Every combination of parameters within MaxSupplied, one answer.  An int
\* parameter may be given a bool (a bool is an int).
InParams ==
    Inputs({None, List(<<>>), List(<<Str(<<"tags">>), Str(<<"authors">>)>>)},
           {None, Str(<<"featured:true">>)}, {None, PyInt(5), Bool(TRUE)},
           {None, PyInt(2), Bool(FALSE)},
           {None, Str(<<"-published_at">>)}, {Answer(200, OkBody)})

\* No parameters, every answer.
InAnswers == Inputs({None}, {None}, {None}, {None}, {None}, AllAnswers)

(***************************************************************************)
(* A call in flight on a thread: the statement it stands before (pc), the  *)
(* operation called, and the locals of _load_credentials and               *)
(* _execute_get_request (the fetched credentials, the default read for the *)
(* version, missing_creds, prepared_params), then what the call sent and   *)
(* gave its caller.                                                        *)
(***************************************************************************)
Threads == 1..MaxThreads

IdleThread ==
    [pc |-> "idle", op |-> "none", creds |-> None, default |-> None,
     missing |-> <<>>, prep |-> NoParams, request |-> NoRequest,
     answer |-> NoAnswer, result |-> NoResult]

(***************************************************************************)
(* Init: the instance after construction, with a credential source.        *)
(***************************************************************************)
InitInstance ==
    /\ api_key = InitSelf.api_key
    /\ api_version = InitSelf.api_version
    /\ base_url = InitSelf.base_url
    /\ credentials_loaded = InitSelf.credentials_loaded
    /\ fetches = 0
    /\ resolved = Unresolved
    /\ args = None
    /\ request = NoRequest
    /\ answer = NoAnswer
    /\ result = NoResult
    /\ gets = 0
    /\ threads = [t \in Threads |-> IdleThread]

Init ==
    /\ integration \in BOOLEAN
    /\ credentials \in CredentialSources
    /\ InitInstance

\* A configured instance whose source holds a complete bundle.
InitValid ==
    /\ integration = TRUE
    /\ credentials = ValidSource
    /\ InitInstance

(***************************************************************************)
(* Actions.                                                                *)
(***************************************************************************)
\* The credential store is given other contents.
SetCredentials ==
    /\ \E c \in CredentialSources : c # credentials /\ credentials' = c
    /\ UNCHANGED <<integration, cache, exchange, threads>>

\* An operation leaves the integration and the credential store alone (and
\* runs with no other call in flight).
Untouched == UNCHANGED <<integration, credentials, threads>>

\* One call of _execute_get_request by an operation.
Call(endpoint, params, answers) ==
    /\ Cardinality(SuppliedKeys(params)) <= MaxSupplied
    /\ \E http \in answers :
         \E out \in {execute_get_request(Self, integration, credentials,
                                         endpoint, params, http)} :
             /\ fetches + out.fetched <= MaxFetches
             /\ api_key' = out.self.api_key
             /\ api_version' = out.self.api_version
             /\ base_url' = out.self.base_url
             /\ credentials_loaded' = out.self.credentials_loaded
             /\ fetches' = fetches + out.fetched
             /\ resolved' = IF out.fetched > 0 THEN Resolved(out.how, credentials)
                                               ELSE resolved
             /\ args' = params
             /\ request' = out.request
             /\ answer' = IF out.request.sent THEN http ELSE NoAnswer
             /\ result' = out.result
             /\ gets' = out.gets

BrowseParams7(include, fields, filter, limit, page, order, formats) ==
    Dict([include |-> include, fields |-> fields, filter |-> filter,
          limit |-> limit, page |-> page, order |-> order, formats |-> formats])

BrowseParams6(include, fields, filter, limit, page, order) ==
    Dict([include |-> include, fields |-> fields, filter |-> filter,
          limit |-> limit, page |-> page, order |-> order])

ReadParams3(include, fields, formats) ==
    Dict([include |-> include, fields |-> fields, formats |-> formats])

ReadParams2(include, fields) == Dict([include |-> include, fields |-> fields])

\* f"<resource>/<id>/" and f"<resource>/slug/<slug>/"
Collection(resource) == <<resource, "/">>
ById(resource, id) == <<resource, "/">> \o PyStr(id) \o <<"/">>
BySlug(resource, slug) == <<resource, "/", "slug", "/">> \o PyStr(slug) \o <<"/">>

Browse7(resource, in) ==
    \E include \in in.include, fields \in in.fields, filter \in in.filter,
       limit \in in.limit, page \in in.page, order \in in.order,
       formats \in in.formats :
        Call(Collection(resource),
             BrowseParams7(include, fields, filter, limit, page, order, formats),
             in.answers)

Browse6(resource, in) ==
    \E include \in in.include, fields \in in.fields, filter \in in.filter,
       limit \in in.limit, page \in in.page, order \in in.order :
        Call(Collection(resource),
             BrowseParams6(include, fields, filter, limit, page, order),
             in.answers)

browse_posts(in) ==
    /\ Browse7("posts", in)
    /\ Untouched

read_post_by_id(in) ==
    /\ \E id \in in.id, include \in in.include, fields \in in.fields,
          formats \in in.formats :
           Call(ById("posts", id), ReadParams3(include, fields, formats), in.answers)
    /\ Untouched

read_post_by_slug(in) ==
    /\ \E slug \in in.slug, include \in in.include, fields \in in.fields,
          formats \in in.formats :
           Call(BySlug("posts", slug), ReadParams3(include, fields, formats), in.answers)
    /\ Untouched

browse_authors(in) ==
    /\ Browse6("authors", in)
    /\ Untouched

read_author_by_id(in) ==
    /\ \E id \in in.id, include \in in.include, fields \in in.fields :
           Call(ById("authors", id), ReadParams2(include, fields), in.answers)
    /\ Untouched

read_author_by_slug(in) ==
    /\ \E slug \in in.slug, include \in in.include, fields \in in.fields :
           Call(BySlug("authors", slug), ReadParams2(include, fields), in.answers)
    /\ Untouched

browse_tags(in) ==
    /\ Browse6("tags", in)
    /\ Untouched

read_tag_by_id(in) ==
    /\ \E id \in in.id, include \in in.include, fields \in in.fields :
           Call(ById("tags", id), ReadParams2(include, fields), in.answers)
    /\ Untouched

read_tag_by_slug(in) ==
    /\ \E slug \in in.slug, include \in in.include, fields \in in.fields :
           Call(BySlug("tags", slug), ReadParams2(include, fields), in.answers)
    /\ Untouched

browse_pages(in) ==
    /\ Browse7("pages", in)
    /\ Untouched

read_page_by_id(in) ==
    /\ \E id \in in.id, include \in in.include, fields \in in.fields,
          formats \in in.formats :
           Call(ById("pages", id), ReadParams3(include, fields, formats), in.answers)
    /\ Untouched

read_page_by_slug(in) ==
    /\ \E slug \in in.slug, include \in in.include, fields \in in.fields,
          formats \in in.formats :
           Call(BySlug("pages", slug), ReadParams3(include, fields, formats), in.answers)
    /\ Untouched

browse_tiers(in) ==
    /\ Browse6("tiers", in)
    /\ Untouched

browse_settings(in) ==
    /\ Call(Collection("settings"), None, in.answers)
    /\ Untouched

\* Any of the 14 operations.
Operation(in) ==
    \/ browse_posts(in)
    \/ read_post_by_id(in)
    \/ read_post_by_slug(in)
    \/ browse_authors(in)
    \/ read_author_by_id(in)
    \/ read_author_by_slug(in)
    \/ browse_tags(in)
    \/ read_tag_by_id(in)
    \/ read_tag_by_slug(in)
    \/ browse_pages(in)
    \/ read_page_by_id(in)
    \/ read_page_by_slug(in)
    \/ browse_tiers(in)
    \/ browse_settings(in)

(***************************************************************************)
(* Concurrent calls.  Each thread runs one operation call, statement by    *)
(* statement; a step is one statement that reads or writes the instance    *)
(* (the statements on locals only are joined to the step before them).     *)
(***************************************************************************)
\* The operations the threads call: one with parameters, one without.
RaceOps == {"posts", "settings"}

EndpointOf(op) == Collection(op)

ParamsOf(op) ==
    IF op = "settings" THEN None
    ELSE BrowseParams7(None, None, None, None, None, None, None)

\* The answers the threads get.
RaceAnswers == {Answer(200, OkBody), Failure("ConnectError")}

\* Thread t goes on to the statement at pc.
Goto(t, pc) == threads' = [threads EXCEPT ![t].pc = pc]

\* Thread t returns (or raises) res without a GET.
Return(t, res) == threads' = [threads EXCEPT ![t].pc = "done", ![t].result = res]

\* What the threads leave alone: the integration, the store and the record
\* of the latest sequential call.
Beside == UNCHANGED <<integration, credentials, resolved, args, request,
                      answer, result, gets>>

\* Faulty variant: The flag is raised before the fields are stored.
FlagWhileStoring_raised(self) == TRUE

\* The flag between the fetch and the end of _load_credentials: the
\* statements that store the fields leave it as it is.
FlagWhileStoring(self) == self.credentials_loaded

\* An operation is called on thread t.
Begin(t) ==
    /\ threads[t].pc = "idle"
    /\ \E op \in RaceOps :
         threads' = [threads EXCEPT ![t].pc = "check_loaded", ![t].op = op]
    /\ UNCHANGED <<cache, fetches>>
    /\ Beside

\* `if not self._credentials_loaded:` of _execute_get_request.
CheckLoaded(t) ==
    /\ threads[t].pc = "check_loaded"
    /\ IF NeedsLoad(Self) THEN Goto(t, "load_enter") ELSE Goto(t, "check_base")
    /\ UNCHANGED <<cache, fetches>>
    /\ Beside

\* `if self._credentials_loaded:` and `if not self.integration:` of
\* _load_credentials.
LoadEnter(t) ==
    /\ threads[t].pc = "load_enter"
    /\ IF AlreadyLoaded(Self) THEN Goto(t, "check_base")
       ELSE IF ~integration THEN Return(t, StrResult(LoadFailedMsg))
       ELSE Goto(t, "fetch")
    /\ UNCHANGED <<cache, fetches>>
    /\ Beside

\* `credentials = self.integration.get_credentials()` with its handlers, and
\* `admin_domain = credentials.get(...)`.
Fetch(t) ==
    /\ threads[t].pc = "fetch"
    /\ fetches' = fetches + 1
    /\ IF credentials.raises # "none" THEN Return(t, StrResult(LoadFailedMsg))
       ELSE IF credentials.value.t # "dict"
         THEN Return(t, RaiseResult(Exc("AttributeError", <<"get">>)))
       ELSE threads' = [threads EXCEPT ![t].pc = "store_key",
                                       ![t].creds = credentials.value]
    /\ UNCHANGED cache
    /\ Beside

\* `self._api_key = credentials.get("GHOST_CONTENT_API_KEY")`
StoreKey(t) ==
    /\ threads[t].pc = "store_key"
    /\ api_key' = Get(threads[t].creds, "GHOST_CONTENT_API_KEY", None)
    /\ credentials_loaded' = FlagWhileStoring(Self)
    /\ Goto(t, "read_version")
    /\ UNCHANGED <<api_version, base_url, fetches>>
    /\ Beside

\* The default `self._api_version` is read, before credentials.get is called.
ReadVersion(t) ==
    /\ threads[t].pc = "read_version"
    /\ threads' = [threads EXCEPT ![t].pc = "store_version",
                                  ![t].default = api_version]
    /\ UNCHANGED <<cache, fetches>>
    /\ Beside

\* `self._api_version = credentials.get("GHOST_API_VERSION", <default>)`
StoreVersion(t) ==
    /\ threads[t].pc = "store_version"
    /\ api_version' = Get(threads[t].creds, "GHOST_API_VERSION", threads[t].default)
    /\ Goto(t, "store_base")
    /\ UNCHANGED <<api_key, base_url, credentials_loaded, fetches>>
    /\ Beside

\* `if not admin_domain: ... else: self.base_url = ...`
StoreBaseUrl(t) ==
    /\ threads[t].pc = "store_base"
    /\ LET admin_domain == Get(threads[t].creds, "GHOST_ADMIN_DOMAIN", None)
       IN  IF ~Truthy(admin_domain)
             THEN /\ threads' = [threads EXCEPT
                                   ![t].pc = "check_key",
                                   ![t].missing = <<"GHOST_ADMIN_DOMAIN">>]
                  /\ UNCHANGED base_url
           ELSE IF admin_domain.t # "str"
             THEN /\ Return(t, RaiseResult(Exc("AttributeError", <<"rstrip">>)))
                  /\ UNCHANGED base_url
           ELSE /\ base_url' = BaseUrlOf(admin_domain)
                /\ Goto(t, "check_key")
    /\ UNCHANGED <<api_key, api_version, credentials_loaded, fetches>>
    /\ Beside

\* `if not self._api_key: missing_creds.append(...)`
CheckKey(t) ==
    /\ threads[t].pc = "check_key"
    /\ threads' = [threads EXCEPT
                     ![t].pc = "mark",
                     ![t].missing = IF ~Truthy(api_key)
                                      THEN Append(@, "GHOST_CONTENT_API_KEY")
                                      ELSE @]
    /\ UNCHANGED <<cache, fetches>>
    /\ Beside

\* `self._credentials_loaded = True` in either branch of `if missing_creds:`,
\* and the return to _execute_get_request.
MarkLoaded(t) ==
    /\ threads[t].pc = "mark"
    /\ credentials_loaded' = TRUE
    /\ IF threads[t].missing # <<>> THEN Return(t, StrResult(LoadFailedMsg))
       ELSE Goto(t, "check_base")
    /\ UNCHANGED <<api_key, api_version, base_url, fetches>>
    /\ Beside

\* `if not self.base_url:`
CheckBaseUrl(t) ==
    /\ threads[t].pc = "check_base"
    /\ IF ~BaseUrlConfigured(Self) THEN Return(t, StrResult(BaseUrlMsg))
       ELSE Goto(t, "guard_key")
    /\ UNCHANGED <<cache, fetches>>
    /\ Beside

\* `if not self._api_key: raise ValueError(...)` of _prepare_params, caught
\* by _execute_get_request.
GuardKey(t) ==
    /\ threads[t].pc = "guard_key"
    /\ IF ~KeyUsable(Self)
         THEN Return(t, HandleException(Exc("ValueError", KeyMissingMsg),
                                        EndpointOf(threads[t].op), NoAnswer))
         ELSE Goto(t, "build")
    /\ UNCHANGED <<cache, fetches>>
    /\ Beside

\* `final_params = {"key": self._api_key}` and the loop.
BuildParams(t) ==
    /\ threads[t].pc = "build"
    /\ threads' = [threads EXCEPT
                     ![t].pc = "send",
                     ![t].prep = FinalParams(Self, ParamsOf(threads[t].op))]
    /\ UNCHANGED <<cache, fetches>>
    /\ Beside

\* `self.client.get(...)`, raise_for_status, response.json() and the
\* handlers.
Send(t) ==
    /\ threads[t].pc = "send"
    /\ \E http \in RaceAnswers :
         \E out \in {Exchange(Self, EndpointOf(threads[t].op),
                              [raised |-> NoExc, params |-> threads[t].prep],
                              http, LoadOutcome(Self, TRUE, NoExc, 0, "skipped"))} :
             threads' = [threads EXCEPT
                           ![t].pc = "done",
                           ![t].request = out.request,
                           ![t].answer = IF out.request.sent THEN http ELSE NoAnswer,
                           ![t].result = out.result]
    /\ UNCHANGED <<cache, fetches>>
    /\ Beside

\* A step of thread t.
ThreadStep(t) ==
    \/ Begin(t)
    \/ CheckLoaded(t)
    \/ LoadEnter(t)
    \/ Fetch(t)
    \/ StoreKey(t)
    \/ ReadVersion(t)
    \/ StoreVersion(t)
    \/ StoreBaseUrl(t)
    \/ CheckKey(t)
    \/ MarkLoaded(t)
    \/ CheckBaseUrl(t)
    \/ GuardKey(t)
    \/ BuildParams(t)
    \/ Send(t)

(***************************************************************************)
(* Specifications.                                                         *)
(***************************************************************************)
\* The credential lifecycle: any source, which may change between calls.
Next == SetCredentials \/ Operation(InLifecycle)
Spec == Init /\ [][Next]_vars

\* Parameter normalisation: every combination of an operation's parameters.
NextParams == Operation(InParams)
SpecParams == InitValid /\ [][NextParams]_vars

\* The error mapping: every answer of the server.
NextAnswers == Operation(InAnswers)
SpecAnswers == InitValid /\ [][NextAnswers]_vars

\* Concurrent first calls: any source, which does not change.
NextRace == \E t \in Threads : ThreadStep(t)
SpecRace == Init /\ [][NextRace]_vars

(***************************************************************************)
(* Properties.                                                             *)
(***************************************************************************)
\* text holds the fragment w.
Contains(text, w) == \E i \in 1..Len(text) : text[i] = w

\* text holds the word w in whatever case.
ContainsAnyCase(text, w) == Contains(Lower(text), w)

\* text holds the fragments of sub, in a row.
ContainsText(text, sub) ==
    \E i \in 1..(Len(text) - Len(sub) + 1) : SubSeq(text, i, i + Len(sub) - 1) = sub

\* A step that is an operation call (the store is the only other thing
\* that moves).
CallStep == credentials' = credentials /\ vars' # vars

\* The store holds a bundle (a dict).
HoldsBundle == credentials.raises = "none" /\ credentials.value.t = "dict"

\* C1: every GET that is sent carries the query parameter `key`, and its
\* value is the cached API key, which is the non-empty key the resolution
\* read from the credentials; no GET is sent while the key is missing or
\* empty.
KeyInEveryRequest ==
    request.sent =>
        /\ "key" \in DOMAIN request.params
        /\ request.params["key"] = api_key
        /\ Truthy(api_key)
        /\ api_key = Get(resolved.source.value, "GHOST_CONTENT_API_KEY", None)

\* A GET was sent and answered although the store now holds another key.
KeyedRequestSent ==
    /\ request.sent
    /\ result.kind = "json"
    /\ HoldsBundle
    /\ Get(credentials.value, "GHOST_CONTENT_API_KEY", None) # api_key

\* C2: when the credentials hold no GHOST_ADMIN_DOMAIN (and no base URL was
\* cached from other contents), every call, the first one included, returns
\* a string that contains "domain" (in whatever case).
DomainAbsent == HoldsBundle /\ "GHOST_ADMIN_DOMAIN" \notin DOMAIN credentials.value.d

MissingDomainNamesDomain ==
    [][(CallStep /\ DomainAbsent /\ ~Truthy(base_url))
          => (result'.kind = "str" /\ ContainsAnyCase(result'.text, "domain"))]_vars

\* C3: when the credentials hold no GHOST_CONTENT_API_KEY (and no key was
\* cached from other contents), every call, the first one included and with
\* or without a domain, returns a string that contains "key".
KeyAbsent == HoldsBundle /\ "GHOST_CONTENT_API_KEY" \notin DOMAIN credentials.value.d

MissingKeyNamesKey ==
    [][(CallStep /\ KeyAbsent /\ ~Truthy(api_key))
          => (result'.kind = "str" /\ ContainsAnyCase(result'.text, "key"))]_vars

\* C4: no operation raises to its caller: whatever the credential source
\* and the server do, a call gives a parsed JSON body or a string.
NoOperationRaises == result.kind \in {"none", "json", "str"}

\* C5: get_credentials is called at most once over the life of the
\* instance, whatever the first fetch gave, and never before the first
\* operation call.
FetchedAtMostOnce ==
    /\ fetches <= 1
    /\ (result.kind = "none" => fetches = 0)

\* C6: once a resolution has ended with the domain or the key missing,
\* every later call returns a string without fetching the credentials again
\* and without sending a GET, whatever the store holds by then.
FailedResolutionIsFinal ==
    [][(CallStep /\ resolved.how = "missing")
          => /\ fetches' = fetches
             /\ ~request'.sent
             /\ result'.kind = "str"]_vars

\* A later call was short-circuited on the missing base URL while the store
\* holds a complete bundle.
ShortCircuited ==
    /\ resolved.how = "missing"
    /\ credentials = Returns(Bundle(GoodDomain, GoodKey, GoodVersion))
    /\ result = StrResult(BaseUrlMsg)

\* C7: after a successful resolution no step changes the cached base URL,
\* API key, API version or loaded flag, whatever the call's outcome and
\* whatever the store holds by then.
ResolvedBundleIsFrozen ==
    [][resolved.how = "complete" => UNCHANGED cache]_vars

\* A later call failed on the network after the store began to raise.
CalledAfterStoreChanged ==
    /\ resolved.how = "complete"
    /\ credentials = Raises("RuntimeError")
    /\ resolved.source # credentials
    /\ answer = Failure("ConnectError")
    /\ result.kind = "str"

\* C8: in every GET that is sent the Accept-Version header is the
\* GHOST_API_VERSION the resolution read when one is supplied, and "v5.0"
\* when the entry is absent or holds no value; it is never empty or null.
ExpectedVersion(bundle) ==
    LET v == Get(bundle, "GHOST_API_VERSION", None)
    IN  IF Truthy(v) THEN v ELSE DefaultApiVersion

AcceptVersionResolvedOrDefault ==
    request.sent =>
        /\ "Accept-Version" \in DOMAIN request.headers
        /\ request.headers["Accept-Version"] = ExpectedVersion(resolved.source.value)
        /\ Truthy(request.headers["Accept-Version"])

\* C9: a list parameter that holds a non-empty list is sent as its elements
\* joined with ","; one that is None or empty has no key in the query.
ListParams == {"include", "fields", "formats"}

ListParamsJoinedOrOmitted ==
    (request.sent /\ args.t = "dict") =>
        \A p \in ListParams \cap DOMAIN args.d :
            IF Truthy(args.d[p])
              THEN /\ p \in DOMAIN request.params
                   /\ request.params[p] =
                        Str(Join(<<",">>, [i \in 1..Len(args.d[p].l) |-> args.d[p].l[i].s]))
              ELSE p \notin DOMAIN request.params

\* C9 (amended): a list parameter that holds a list is sent as its elements
\* joined with "," in order, which for an empty list is the key with an
\* empty value; only one that is None has no key in the query.
ListParamsJoinedNoneOmitted ==
    (request.sent /\ args.t = "dict") =>
        \A p \in ListParams \cap DOMAIN args.d :
            IF args.d[p] = None
              THEN p \notin DOMAIN request.params
              ELSE /\ p \in DOMAIN request.params
                   /\ request.params[p] =
                        Str(Join(<<",">>, [i \in 1..Len(args.d[p].l) |-> args.d[p].l[i].s]))

\* A GET went out for a call that gave an empty list, a list of two and None.
ListsSent ==
    /\ request.sent
    /\ args.t = "dict"
    /\ "formats" \in DOMAIN args.d
    /\ args.d["include"] = List(<<>>)
    /\ args.d["fields"] = List(<<Str(<<"tags">>), Str(<<"authors">>)>>)
    /\ args.d["formats"] = None
    /\ request.params["fields"] = Str(<<"tags", ",", "authors">>)

\* C10: on a 4xx/5xx answer whose JSON body holds a non-empty `errors`
\* array the call returns one string that holds the status code and the
\* message and the type of every element; the cache of a loaded instance is
\* left as it was, and the instance stays loaded.
ErrorsOf(http) == Get(http.body.value, "errors", List(<<>>))

ErrorsAnswered ==
    /\ request.sent
    /\ answer.raises = "none"
    /\ IsErrorStatus(answer.status)
    /\ answer.body.json
    /\ answer.body.value.t = "dict"
    /\ ErrorsOf(answer).t = "list"
    /\ ErrorsOf(answer).l # <<>>

NamesEveryError ==
    /\ result.kind = "str"
    /\ Contains(result.text, ToString(answer.status))
    /\ \A i \in 1..Len(ErrorsOf(answer).l) :
         LET err == ErrorsOf(answer).l[i]
         IN  err.t = "dict" =>
               \A f \in {"message", "type"} \cap DOMAIN err.d :
                   ContainsText(result.text, err.d[f].s)

Sequential == load_credentials(InitSelf, integration, credentials).self

PastGate(t) == threads[t].pc \in {"check_base", "guard_key", "build", "send"}

AllDone == \A t \in Threads : threads[t].pc = "done"

RacedLoadIsSequential ==
    /\ AllDone => Self = Sequential
    /\ \A t \in Threads :
         /\ PastGate(t) => Self = Sequential
         /\ threads[t].request.sent =>
              /\ threads[t].request.params["key"] = Sequential.api_key
              /\ Truthy(Sequential.api_key)
              /\ Truthy(Sequential.base_url)
              /\ threads[t].request.headers["Accept-Version"] = Sequential.api_version
    /\ fetches <= Cardinality({t \in Threads : threads[t].pc # "idle"})

\* Both threads fetched the credentials, and both got their GET answered.
BothFetchedAndSent ==
    /\ AllDone
    /\ fetches = MaxThreads
    /\ \A t \in Threads : threads[t].request.sent /\ threads[t].result.kind = "json"
    /\ credentials_loaded

\* C12: a call puts at most one GET on the wire, whatever comes back for it
\* (an error status, a network failure, a body that is no JSON), and none
\* when it ends with the base URL or the key missing or raises out of the
\* credential load.
ResolutionFailed ==
    \/ ~BaseUrlConfigured(Self)
    \/ ~KeyUsable(Self)
    \/ result.kind = "raise"
    \/ result = StrResult(LoadFailedMsg)

AtMostOneGetPerCall ==
    /\ gets <= 1
    /\ (gets = 1) = request.sent
    /\ ResolutionFailed => gets = 0

\* A call whose one GET failed on the network returned the network error.
FailedGetNotRepeated ==
    /\ gets = 1
    /\ answer = Failure("ConnectError")
    /\ result = StrResult(NetworkErrorMsg(request.endpoint,
                                          Exc("ConnectError", <<"request failed">>)))

\* C13: a call whose GET went out and failed otherwise than by a 4xx/5xx
\* status or a network error (a 2xx body that is no JSON, an exception of
\* another kind) returns a string that names the type of the failure; and
\* a string that begins "Configuration error" is returned only while the
\* API key is missing.
FailedOtherwise ==
    /\ request.sent
    /\ result.kind = "str"
    /\ ~IsInstance(Exc(answer.raises, <<>>), "RequestError")
    /\ answer.raises = "none" => ~IsErrorStatus(answer.status)

FailureType == IF answer.raises # "none" THEN answer.raises ELSE "JSONDecodeError"

IsConfigurationError ==
    /\ result.kind = "str"
    /\ ContainsText(result.text, <<"Configuration", " ", "error:">>)

OtherFailureNamesItsType ==
    /\ FailedOtherwise => Contains(result.text, FailureType)
    /\ IsConfigurationError => ~KeyUsable(Self)

\* C14: the query of every GET holds `key` and one entry for each
\* parameter of the call whose value is not None, and nothing else; a
\* boolean is sent as "true" or "false" and any other scalar as its string
\* form.
Given == IF args.t = "dict" THEN {k \in DOMAIN args.d : args.d[k] # None} ELSE {}

ScalarText(v) ==
    CASE v.t = "bool" -> IF v.b THEN <<"true">> ELSE <<"false">>
      [] v.t = "int"  -> <<ToString(v.n)>>
      [] v.t = "str"  -> v.s

QueryIsKeyPlusGiven ==
    request.sent =>
        /\ DOMAIN request.params = {"key"} \cup Given
        /\ request.params["key"] = api_key
        /\ \A k \in Given :
             args.d[k].t # "list" => request.params[k] = Str(ScalarText(args.d[k]))

\* browse_posts(limit=5, order="-published_at") sent key, limit and order to
\* posts/.
LimitAndOrderSent ==
    /\ request.sent
    /\ request.endpoint = <<"posts", "/">>
    /\ args = BrowseParams7(None, None, None, PyInt(5), None,
                            Str(<<"-published_at">>), None)
    /\ request.params = [key   |-> GoodKey,
                         limit |-> Str(<<"5">>),
                         order |-> Str(<<"-published_at">>)]

====
